---- MODULE Spec2Model ----
(***************************************************************************)
(* Detective Quest: the room tree of the mansion, the BST of collected     *)
(* clues and the clue -> suspect hash table, in the three variants of the  *)
(* program (Novato, Aventureiro, Mestre).  Texts are C strings, modelled   *)
(* as sequences of byte values 1..255 (the terminating NUL is implicit).   *)
(* Pointers are indices: rooms into salas, clue nodes into nos, 0 is NULL. *)
(***************************************************************************)
EXTENDS Integers, Sequences, FiniteSets, TLC

VARIABLES
    variante,    \* which program runs: "Novato", "Aventureiro" or "Mestre"
    pc,          \* position of the program
    salas,       \* the rooms allocated by criarSala, in allocation order
    atual,       \* explorar*: the parameter/local atual (room pointer)
    opcao,       \* explorar*: the local char opcao (Indet until first assigned)
    eof,         \* stdin has reached end of file
    visitadas,   \* history: rooms whose header the loop has printed
    relato,      \* the last report printed by the program
    nos,         \* the PistaNode objects allocated so far (the heap of the BST)
    raizPistas,  \* main: PistaNode* raizPistas
    tabela,      \* main: SuspeitoNode* tabela[TAM_HASH], each chain head first
    listagem,    \* the lines last printed by exibirPistas
    nome,        \* verificarSuspeitoFinal: the buffer nome after the read
    total,       \* verificarSuspeitoFinal: int total (NaoCalc until computed)
    veredito,    \* the verdict printed by verificarSuspeitoFinal
    op,          \* API specification: the last function called
    arg,         \* API specification: its text argument
    inseridas,   \* history: the (pista, suspeito) pairs given to inserirNaHash
    achado,      \* API specification: the text returned by encontrarSuspeito
    entrada,     \* twin runs: the lines typed, the same for both programs
    corrida      \* twin runs: the state of each of the two exploration loops

vars == <<variante, pc, salas, atual, opcao, eof, visitadas, relato, nos,
          raizPistas, tabela, listagem, nome, total, veredito, op, arg,
          inseridas, achado, entrada, corrida>>

----------------------------------------------------------------------------
(* Program constants *)

TAM_HASH == 11
MAX_NOME == 64
MAX_PISTA == 128
AV_MAX_PISTA == 100
NULL == 0

\* value of the char opcao while it was never assigned (no byte value)
Indet == -1
\* value of the buffer nome while nothing was read into it (no C string)
NomeIndet == <<-1>>
\* value of total while contarPistasPorSuspeitoNaBST was not called
NaoCalc == -1

----------------------------------------------------------------------------
(* The string literals of the programs, as UTF-8 bytes *)

\* "Hall de Entrada"
NomeHall ==
    <<72, 97, 108, 108, 32, 100, 101, 32, 69, 110, 116, 114, 97, 100, 97>>
\* "Biblioteca"
NomeBiblioteca ==
    <<66, 105, 98, 108, 105, 111, 116, 101, 99, 97>>
\* "Cozinha"
NomeCozinha ==
    <<67, 111, 122, 105, 110, 104, 97>>
\* "Sala de Estudo"
NomeEstudo ==
    <<83, 97, 108, 97, 32, 100, 101, 32, 69, 115, 116, 117, 100, 111>>
\* "Jardim"
NomeJardim ==
    <<74, 97, 114, 100, 105, 109>>
\* "Sótão"
NomeSotao ==
    <<83, 195, 179, 116, 195, 163, 111>>
\* "Pegadas de lama recentes"
PistaHall ==
    <<80, 101, 103, 97, 100, 97, 115, 32, 100, 101, 32, 108, 97, 109, 97, 32,
      114, 101, 99, 101, 110, 116, 101, 115>>
\* "Página arrancada de um diário"
PistaBiblioteca ==
    <<80, 195, 161, 103, 105, 110, 97, 32, 97, 114, 114, 97, 110, 99, 97, 100,
      97, 32, 100, 101, 32, 117, 109, 32, 100, 105, 195, 161, 114, 105, 111>>
\* "Copo quebrado com marca de batom"
PistaCozinha ==
    <<67, 111, 112, 111, 32, 113, 117, 101, 98, 114, 97, 100, 111, 32, 99, 111,
      109, 32, 109, 97, 114, 99, 97, 32, 100, 101, 32, 98, 97, 116, 111, 109>>
\* "Envelope selado com cera vermelha"
PistaEstudo ==
    <<69, 110, 118, 101, 108, 111, 112, 101, 32, 115, 101, 108, 97, 100, 111,
      32, 99, 111, 109, 32, 99, 101, 114, 97, 32, 118, 101, 114, 109, 101, 108,
      104, 97>>
\* "Chave antiga caída entre as flores"
PistaJardim ==
    <<67, 104, 97, 118, 101, 32, 97, 110, 116, 105, 103, 97, 32, 99, 97, 195,
      173, 100, 97, 32, 101, 110, 116, 114, 101, 32, 97, 115, 32, 102, 108,
      111, 114, 101, 115>>
\* "Retrato rasgado de uma mulher desconhecida"
PistaSotao ==
    <<82, 101, 116, 114, 97, 116, 111, 32, 114, 97, 115, 103, 97, 100, 111, 32,
      100, 101, 32, 117, 109, 97, 32, 109, 117, 108, 104, 101, 114, 32, 100,
      101, 115, 99, 111, 110, 104, 101, 99, 105, 100, 97>>
\* "Jardineiro"
Jardineiro ==
    <<74, 97, 114, 100, 105, 110, 101, 105, 114, 111>>
\* "Governanta"
Governanta ==
    <<71, 111, 118, 101, 114, 110, 97, 110, 116, 97>>
\* "Madame Sinclair"
MadameSinclair ==
    <<77, 97, 100, 97, 109, 101, 32, 83, 105, 110, 99, 108, 97, 105, 114>>
\* "Desconhecido", the literal returned by encontrarSuspeito
Desconhecido ==
    <<68, 101, 115, 99, 111, 110, 104, 101, 99, 105, 100, 111>>

----------------------------------------------------------------------------
(* <string.h> and <ctype.h> as the programs use them *)

Min(a, b) == IF a < b THEN a ELSE b

\* strcmp: byte-wise, bytes as unsigned char, decided at the first position
\* where the texts differ; a proper prefix is smaller
strcmp(a, b) ==
    LET n == Min(Len(a), Len(b))
        D == {i \in 1..n : a[i] # b[i]}
    IN IF D = {}
       THEN (IF Len(a) < Len(b) THEN -1 ELSE IF Len(a) > Len(b) THEN 1 ELSE 0)
       ELSE LET i == CHOOSE k \in D : \A j \in D : k <= j
            IN IF a[i] < b[i] THEN -1 ELSE 1

\* strncpy(dst, src, n - 1); dst[n - 1] = '\0' : the text left in dst
strncpyTerm(src, n) == SubSeq(src, 1, Min(Len(src), n - 1))

\* the characters scanf(" %c") skips: space, \t, \n, \v, \f, \r
Brancos == {32, 9, 10, 11, 12, 13}

----------------------------------------------------------------------------
(* The BST of clues: PistaNode, inserirPista, exibirPistas *)

\* a freshly allocated PistaNode holding txt
NovoPistaNode(txt) == [pista |-> txt, esquerda |-> NULL, direita |-> NULL]

\* inserirPista with the two directions exchanged
RECURSIVE inserirPista_Invertida(_, _, _)
inserirPista_Invertida(h, raiz, pista) ==
    IF pista = <<>> THEN [nos |-> h, raiz |-> raiz]
    ELSE IF raiz = NULL
    THEN [nos |-> Append(h, NovoPistaNode(strncpyTerm(pista, MAX_PISTA))),
          raiz |-> Len(h) + 1]
    ELSE LET cmp == strcmp(pista, h[raiz].pista) IN
         IF cmp > 0
         THEN LET r == inserirPista_Invertida(h, h[raiz].esquerda, pista) IN
              [nos |-> [r.nos EXCEPT ![raiz].esquerda = r.raiz], raiz |-> raiz]
         ELSE IF cmp < 0
         THEN LET r == inserirPista_Invertida(h, h[raiz].direita, pista) IN
              [nos |-> [r.nos EXCEPT ![raiz].direita = r.raiz], raiz |-> raiz]
         ELSE [nos |-> h, raiz |-> raiz]

\* inserirPista putting the new node on top: the new node becomes the root
\* and the old root its child
inserirPista_NaRaiz(h, raiz, pista) ==
    IF pista = <<>> THEN [nos |-> h, raiz |-> raiz]
    ELSE IF raiz = NULL
    THEN [nos |-> Append(h, NovoPistaNode(strncpyTerm(pista, MAX_PISTA))),
          raiz |-> Len(h) + 1]
    ELSE LET cmp == strcmp(pista, h[raiz].pista) IN
         IF cmp < 0
         THEN [nos |-> Append(h, [pista |-> strncpyTerm(pista, MAX_PISTA),
                                  esquerda |-> NULL, direita |-> raiz]),
               raiz |-> Len(h) + 1]
         ELSE IF cmp > 0
         THEN [nos |-> Append(h, [pista |-> strncpyTerm(pista, MAX_PISTA),
                                  esquerda |-> raiz, direita |-> NULL]),
               raiz |-> Len(h) + 1]
         ELSE [nos |-> h, raiz |-> raiz]

\* inserirPista of the Mestre program.  h is the heap of nodes, raiz the
\* pointer passed in; the result is the heap after the call and the pointer
\* returned.
RECURSIVE inserirPista(_, _, _)
inserirPista(h, raiz, pista) ==
    IF pista = <<>> THEN [nos |-> h, raiz |-> raiz]
    ELSE IF raiz = NULL
    THEN [nos |-> Append(h, NovoPistaNode(strncpyTerm(pista, MAX_PISTA))),
          raiz |-> Len(h) + 1]
    ELSE LET cmp == strcmp(pista, h[raiz].pista) IN
         IF cmp < 0
         THEN LET r == inserirPista(h, h[raiz].esquerda, pista) IN
              [nos |-> [r.nos EXCEPT ![raiz].esquerda = r.raiz], raiz |-> raiz]
         ELSE IF cmp > 0
         THEN LET r == inserirPista(h, h[raiz].direita, pista) IN
              [nos |-> [r.nos EXCEPT ![raiz].direita = r.raiz], raiz |-> raiz]
         ELSE [nos |-> h, raiz |-> raiz]

\* inserirPista of the Aventureiro program: no test for the empty text, and
\* strcpy instead of strncpy (the node holds the whole text; whether it fits
\* the 100-byte field is tested by Estouro).
RECURSIVE inserirPistaAv(_, _, _)
inserirPistaAv(h, raiz, pista) ==
    IF raiz = NULL
    THEN [nos |-> Append(h, NovoPistaNode(pista)), raiz |-> Len(h) + 1]
    ELSE IF strcmp(pista, h[raiz].pista) < 0
    THEN LET r == inserirPistaAv(h, h[raiz].esquerda, pista) IN
         [nos |-> [r.nos EXCEPT ![raiz].esquerda = r.raiz], raiz |-> raiz]
    ELSE IF strcmp(pista, h[raiz].pista) > 0
    THEN LET r == inserirPistaAv(h, h[raiz].direita, pista) IN
         [nos |-> [r.nos EXCEPT ![raiz].direita = r.raiz], raiz |-> raiz]
    ELSE [nos |-> h, raiz |-> raiz]

\* strcpy wrote past the end of a char[100] field of some node of h
Estouro(h) == \E i \in 1..Len(h) : Len(h[i].pista) >= AV_MAX_PISTA

\* exibirPistas: the texts printed, in the order printed (in-order walk)
RECURSIVE exibirPistas(_, _)
exibirPistas(h, raiz) ==
    IF raiz = NULL THEN <<>>
    ELSE exibirPistas(h, h[raiz].esquerda) \o <<h[raiz].pista>>
         \o exibirPistas(h, h[raiz].direita)

----------------------------------------------------------------------------
(* The hash table of suspects *)

\* inicializarHash: every bucket NULL (an empty chain)
inicializarHash == [i \in 0..(TAM_HASH - 1) |-> <<>>]

\* the loop of hash: unsigned int soma += *p, as the sum of the bytes
\* lo..hi of the text (summed by halves).  The C sum wraps at 2^32, which
\* takes a text of more than 16 million bytes; the texts here stay far below.
RECURSIVE somaBytes(_, _, _)
somaBytes(pista, lo, hi) ==
    IF lo > hi THEN 0
    ELSE IF lo = hi THEN pista[lo]
    ELSE LET m == (lo + hi) \div 2
         IN somaBytes(pista, lo, m) + somaBytes(pista, m + 1, hi)

\* hash with the bytes read as signed char (the cast to unsigned char left out)
hash_ComSinal(pista) ==
    somaBytes([i \in 1..Len(pista) |->
                 IF pista[i] >= 128 THEN pista[i] - 256 ELSE pista[i]],
              1, Len(pista)) % TAM_HASH

hash(pista) == somaBytes(pista, 1, Len(pista)) % TAM_HASH

\* inserirNaHash: the new node goes to the head of its bucket's chain
inserirNaHash(tab, pista, suspeito) ==
    LET idx == hash(pista)
        novo == [pista |-> strncpyTerm(pista, MAX_PISTA),
                 suspeito |-> strncpyTerm(suspeito, MAX_NOME)]
    IN [tab EXCEPT ![idx] = <<novo>> \o tab[idx]]

\* the while loop of encontrarSuspeito over the chain cur
RECURSIVE encontrarNaLista(_, _)
encontrarNaLista(cur, pista) ==
    IF cur = <<>> THEN Desconhecido
    ELSE IF strcmp(Head(cur).pista, pista) = 0 THEN Head(cur).suspeito
    ELSE encontrarNaLista(Tail(cur), pista)

encontrarSuspeito(tab, pista) == encontrarNaLista(tab[hash(pista)], pista)

----------------------------------------------------------------------------
(* The final accusation *)

\* contadorRec without the call on the right subtree
RECURSIVE contadorRec_SemDireita(_, _, _, _)
contadorRec_SemDireita(tab, h, node, suspeito) ==
    IF node = NULL THEN 0
    ELSE contadorRec_SemDireita(tab, h, h[node].esquerda, suspeito)
         + (IF strcmp(encontrarSuspeito(tab, h[node].pista), suspeito) = 0
            THEN 1 ELSE 0)

\* the nested function contadorRec of contarPistasPorSuspeitoNaBST
RECURSIVE contadorRec(_, _, _, _)
contadorRec(tab, h, node, suspeito) ==
    IF node = NULL THEN 0
    ELSE contadorRec(tab, h, h[node].esquerda, suspeito)
         + (IF strcmp(encontrarSuspeito(tab, h[node].pista), suspeito) = 0
            THEN 1 ELSE 0)
         + contadorRec(tab, h, h[node].direita, suspeito)

contarPistasPorSuspeitoNaBST(tab, h, raiz, suspeito) ==
    IF raiz = NULL THEN 0 ELSE contadorRec(tab, h, raiz, suspeito)

\* the if chain with the threshold test written total > 2
Classificar_Acima2(t) ==
    IF t > 2 THEN "confirmada"
    ELSE IF t > 0 THEN "fragil"
    ELSE "sem-fundamento"

\* the if chain of verificarSuspeitoFinal over total
Classificar(t) ==
    IF t >= 2 THEN "confirmada"
    ELSE IF t > 0 THEN "fragil"
    ELSE "sem-fundamento"

----------------------------------------------------------------------------
(* The mansion: criarSala in the three programs and the links set by main *)

\* criarSala of the Novato program: the room has no clue field
criarSalaNovato(n) == [nome |-> n, esquerda |-> NULL, direita |-> NULL]

\* criarSala of the Aventureiro program: strcpy of both texts
criarSalaAv(n, pista) ==
    [nome |-> n, pista |-> pista, esquerda |-> NULL, direita |-> NULL]

\* criarSala of the Mestre program: strncpy of both texts
criarSala(n, pista) ==
    [nome |-> strncpyTerm(n, MAX_NOME),
     pista |-> IF pista # <<>> THEN strncpyTerm(pista, MAX_PISTA) ELSE <<>>,
     esquerda |-> NULL, direita |-> NULL]

\* the links of main with one more: the study leading back to the hall
Ligar_ComVolta(s) ==
    [s EXCEPT ![1].esquerda = 2, ![1].direita = 3,
              ![2].esquerda = 4, ![2].direita = 5,
              ![3].direita = 6, ![4].esquerda = 1]

\* the five assignments of esquerda / direita in main (the same in the three
\* programs); rooms are numbered in the order main creates them:
\* 1 hall, 2 biblioteca, 3 cozinha, 4 estudo, 5 jardim, 6 sotao
Ligar(s) ==
    [s EXCEPT ![1].esquerda = 2, ![1].direita = 3,
              ![2].esquerda = 4, ![2].direita = 5,
              ![3].direita = 6]

MansaoNovato ==
    Ligar(<<criarSalaNovato(NomeHall), criarSalaNovato(NomeBiblioteca),
            criarSalaNovato(NomeCozinha), criarSalaNovato(NomeEstudo),
            criarSalaNovato(NomeJardim), criarSalaNovato(NomeSotao)>>)

MansaoAv ==
    Ligar(<<criarSalaAv(NomeHall, PistaHall),
            criarSalaAv(NomeBiblioteca, PistaBiblioteca),
            criarSalaAv(NomeCozinha, PistaCozinha),
            criarSalaAv(NomeEstudo, PistaEstudo),
            criarSalaAv(NomeJardim, PistaJardim),
            criarSalaAv(NomeSotao, PistaSotao)>>)

\* the mansion of the Mestre program with no clue in the hall
MansaoMestre_HallSemPista ==
    Ligar(<<criarSala(NomeHall, <<>>),
            criarSala(NomeBiblioteca, PistaBiblioteca),
            criarSala(NomeCozinha, PistaCozinha),
            criarSala(NomeEstudo, PistaEstudo),
            criarSala(NomeJardim, PistaJardim),
            criarSala(NomeSotao, PistaSotao)>>)

MansaoMestre ==
    Ligar(<<criarSala(NomeHall, PistaHall),
            criarSala(NomeBiblioteca, PistaBiblioteca),
            criarSala(NomeCozinha, PistaCozinha),
            criarSala(NomeEstudo, PistaEstudo),
            criarSala(NomeJardim, PistaJardim),
            criarSala(NomeSotao, PistaSotao)>>)

\* the six associations with the clue of the library given to the gardener
ParesMestre_BibliotecaJardineiro ==
    <<[pista |-> PistaHall, suspeito |-> Jardineiro],
      [pista |-> PistaBiblioteca, suspeito |-> Jardineiro],
      [pista |-> PistaCozinha, suspeito |-> MadameSinclair],
      [pista |-> PistaEstudo, suspeito |-> Governanta],
      [pista |-> PistaJardim, suspeito |-> Jardineiro],
      [pista |-> PistaSotao, suspeito |-> MadameSinclair]>>

\* the arguments of the six inserirNaHash calls of main, in order
ParesMestre ==
    <<[pista |-> PistaHall, suspeito |-> Jardineiro],
      [pista |-> PistaBiblioteca, suspeito |-> Governanta],
      [pista |-> PistaCozinha, suspeito |-> MadameSinclair],
      [pista |-> PistaEstudo, suspeito |-> Governanta],
      [pista |-> PistaJardim, suspeito |-> Jardineiro],
      [pista |-> PistaSotao, suspeito |-> MadameSinclair]>>

\* the table after inicializarHash and the first k inserirNaHash calls of main
RECURSIVE TabelaApos(_)
TabelaApos(k) ==
    IF k = 0 THEN inicializarHash
    ELSE inserirNaHash(TabelaApos(k - 1), ParesMestre[k].pista,
                       ParesMestre[k].suspeito)

\* the table main hands to explorarMansao
TabelaMestre == TabelaApos(Len(ParesMestre))

\* the test  !atual->esquerda && !atual->direita
Folha(s, a) == s[a].esquerda = NULL /\ s[a].direita = NULL

----------------------------------------------------------------------------
(* Console input.  stdin is a stream of lines supplied by the player; each  *)
(* read takes the next line, or finds end of file.                          *)

\* lines the player may type at the navigation prompt (without the newline).
\* Lines holding only white space are skipped by scanf(" %c") and leave the
\* program waiting at the same prompt, so they are not listed.
LinhasComando ==
    {<<101>>, <<69>>, <<100>>, <<68>>, <<115>>, <<83>>, <<120>>, <<49>>,
     <<32, 101>>, <<100, 120>>}

\* lines the player may type at the accusation prompt
LinhasAcusacao ==
    {Jardineiro, Governanta, MadameSinclair, Desconhecido, <<>>, <<32>>,
     <<106, 97, 114, 100, 105, 110, 101, 105, 114, 111>>}

\* every value an unassigned char may hold
CharQualquer == 0..255

\* scanf(" %c", &opcao) on a line with a non-blank character: the first one
RECURSIVE scanfChar(_)
scanfChar(l) == IF Head(l) \in Brancos THEN scanfChar(Tail(l)) ELSE Head(l)

\* stdin after limparBufferEntrada is called with nothing of the current
\* line left to discard: it swallows the next line, or meets end of file
AposLimpar(e) == IF e THEN {TRUE} ELSE {FALSE, TRUE}

\* fgets(nome, sizeof(nome), stdin) followed by the removal of the newline
fgetsNome(l) == SubSeq(l, 1, Min(Len(l), MAX_NOME - 1))

----------------------------------------------------------------------------
(* The programs.  pc = "loop" is the top of the while loop of the          *)
(* exploration function, "prompt" its scanf, "listar" the call of          *)
(* exibirPistas in main, "acusar" the fgets of verificarSuspeitoFinal,     *)
(* "fim" the clean-up at the end of main.                                  *)

Init ==
    /\ variante \in {"Novato", "Aventureiro", "Mestre"}
    /\ pc = "loop"
    /\ salas = CASE variante = "Novato" -> MansaoNovato
                 [] variante = "Aventureiro" -> MansaoAv
                 [] OTHER -> MansaoMestre
    /\ atual = 1
    /\ opcao = Indet
    /\ eof = FALSE
    /\ visitadas = {}
    /\ relato = "nenhum"
    /\ nos = <<>>
    /\ raizPistas = NULL
    \* only the Mestre program has a table; the others keep it all NULL
    /\ tabela = IF variante = "Mestre" THEN TabelaMestre ELSE inicializarHash
    /\ listagem = <<>>
    /\ nome = NomeIndet
    /\ total = NaoCalc
    /\ veredito = "nenhum"
    /\ op = "nenhuma"
    /\ arg = <<>>
    /\ inseridas = IF variante = "Mestre" THEN ParesMestre ELSE <<>>
    /\ achado = <<>>
    /\ entrada = <<>>
    /\ corrida = <<>>

\* ---- Novato: explorarSalas ----

\* from the top of the loop to the scanf (or to the return at a leaf)
explorarSalas_Visita ==
    /\ pc = "loop" /\ variante = "Novato"
    /\ visitadas' = visitadas \cup {atual}
    /\ IF Folha(salas, atual)
       THEN relato' = "fim-da-exploracao" /\ pc' = "fim"
       ELSE relato' = "opcoes" /\ pc' = "prompt"
    /\ UNCHANGED <<variante, entrada, corrida,
                   salas, atual, opcao, eof, nos, raizPistas, tabela,
                   listagem, nome, total, veredito, op, arg,
                   inseridas, achado>>

\* the switch over opcao
explorarSalas_Switch(o) ==
    CASE o \in {101, 69} ->
           /\ IF salas[atual].esquerda # NULL
              THEN atual' = salas[atual].esquerda /\ relato' = "nenhum"
              ELSE atual' = atual /\ relato' = "sem-esquerda"
           /\ pc' = "loop"
      [] o \in {100, 68} ->
           /\ IF salas[atual].direita # NULL
              THEN atual' = salas[atual].direita /\ relato' = "nenhum"
              ELSE atual' = atual /\ relato' = "sem-direita"
           /\ pc' = "loop"
      [] o \in {115, 83} ->
           atual' = atual /\ relato' = "saindo" /\ pc' = "fim"
      [] OTHER ->
           atual' = atual /\ relato' = "opcao-invalida" /\ pc' = "loop"

\* scanf reads a command line, limparBufferEntrada discards its rest
explorarSalas_Le ==
    /\ pc = "prompt" /\ variante = "Novato" /\ ~eof
    /\ \E l \in LinhasComando :
         /\ opcao' = scanfChar(l)
         /\ explorarSalas_Switch(scanfChar(l))
    /\ UNCHANGED <<variante, entrada, corrida,
                   salas, eof, visitadas, nos, raizPistas, tabela,
                   listagem, nome, total, veredito, op, arg,
                   inseridas, achado>>

\* scanf meets end of file: opcao keeps what it held
explorarSalas_EOF ==
    /\ pc = "prompt" /\ variante = "Novato"
    /\ eof' = TRUE
    /\ IF opcao = Indet
       THEN \E o \in CharQualquer : explorarSalas_Switch(o)
       ELSE explorarSalas_Switch(opcao)
    /\ UNCHANGED <<variante, entrada, corrida,
                   salas, opcao, visitadas, nos, raizPistas, tabela,
                   listagem, nome, total, veredito, op, arg,
                   inseridas, achado>>

\* ---- Aventureiro: explorarSalasComPistas ----

explorarSalasComPistas_Visita ==
    /\ pc = "loop" /\ variante = "Aventureiro"
    /\ visitadas' = visitadas \cup {atual}
    /\ IF Len(salas[atual].pista) > 0
       THEN LET r == inserirPistaAv(nos, raizPistas, salas[atual].pista) IN
            nos' = r.nos /\ raizPistas' = r.raiz
       ELSE UNCHANGED <<nos, raizPistas>>
    /\ relato' = "opcoes"
    /\ pc' = "prompt"
    /\ UNCHANGED <<variante, entrada, corrida,
                   salas, atual, opcao, eof, tabela, listagem, nome,
                   total, veredito, op, arg, inseridas, achado>>

explorarSalasComPistas_Switch(o) ==
    CASE o \in {101, 69} ->
           /\ IF salas[atual].esquerda # NULL
              THEN atual' = salas[atual].esquerda /\ relato' = "nenhum"
              ELSE atual' = atual /\ relato' = "sem-esquerda"
           /\ pc' = "loop"
      [] o \in {100, 68} ->
           /\ IF salas[atual].direita # NULL
              THEN atual' = salas[atual].direita /\ relato' = "nenhum"
              ELSE atual' = atual /\ relato' = "sem-direita"
           /\ pc' = "loop"
      [] o \in {115, 83} ->
           atual' = atual /\ relato' = "saindo" /\ pc' = "listar"
      [] OTHER ->
           atual' = atual /\ relato' = "opcao-invalida" /\ pc' = "loop"

explorarSalasComPistas_Le ==
    /\ pc = "prompt" /\ variante = "Aventureiro" /\ ~eof
    /\ \E l \in LinhasComando :
         /\ opcao' = scanfChar(l)
         /\ explorarSalasComPistas_Switch(scanfChar(l))
    /\ UNCHANGED <<variante, entrada, corrida,
                   salas, eof, visitadas, nos, raizPistas, tabela,
                   listagem, nome, total, veredito, op, arg,
                   inseridas, achado>>

explorarSalasComPistas_EOF ==
    /\ pc = "prompt" /\ variante = "Aventureiro"
    /\ eof' = TRUE
    /\ IF opcao = Indet
       THEN \E o \in CharQualquer : explorarSalasComPistas_Switch(o)
       ELSE explorarSalasComPistas_Switch(opcao)
    /\ UNCHANGED <<variante, entrada, corrida,
                   salas, opcao, visitadas, nos, raizPistas, tabela,
                   listagem, nome, total, veredito, op, arg,
                   inseridas, achado>>

\* ---- Mestre: explorarMansao ----

\* the visit taking the clue out of the room it was found in
explorarMansao_Visita_ApagaPista ==
    /\ pc = "loop" /\ variante = "Mestre"
    /\ visitadas' = visitadas \cup {atual}
    /\ IF salas[atual].pista # <<>>
       THEN LET r == inserirPista(nos, raizPistas, salas[atual].pista) IN
            nos' = r.nos /\ raizPistas' = r.raiz
       ELSE UNCHANGED <<nos, raizPistas>>
    /\ salas' = [salas EXCEPT ![atual].pista = <<>>]
    /\ relato' = "opcoes"
    /\ pc' = "prompt"
    /\ UNCHANGED <<variante, entrada, corrida,
                   atual, opcao, eof, tabela, listagem, nome,
                   total, veredito, op, arg, inseridas, achado>>

explorarMansao_Visita ==
    /\ pc = "loop" /\ variante = "Mestre"
    /\ visitadas' = visitadas \cup {atual}
    /\ IF salas[atual].pista # <<>>
       THEN LET r == inserirPista(nos, raizPistas, salas[atual].pista) IN
            nos' = r.nos /\ raizPistas' = r.raiz
       ELSE UNCHANGED <<nos, raizPistas>>
    /\ relato' = "opcoes"
    /\ pc' = "prompt"
    /\ UNCHANGED <<variante, entrada, corrida,
                   salas, atual, opcao, eof, tabela, listagem, nome,
                   total, veredito, op, arg, inseridas, achado>>

\* the if chain with the final else leaving the loop
explorarMansao_Se_InvalidaSai(o, e) ==
    CASE o \in {101, 69} ->
           /\ IF salas[atual].esquerda # NULL
              THEN atual' = salas[atual].esquerda /\ relato' = "nenhum"
                   /\ eof' = e
              ELSE atual' = atual /\ relato' = "sem-esquerda"
                   /\ eof' \in AposLimpar(e)
           /\ pc' = "loop"
      [] o \in {100, 68} ->
           /\ IF salas[atual].direita # NULL
              THEN atual' = salas[atual].direita /\ relato' = "nenhum"
                   /\ eof' = e
              ELSE atual' = atual /\ relato' = "sem-direita"
                   /\ eof' \in AposLimpar(e)
           /\ pc' = "loop"
      [] o \in {115, 83} ->
           atual' = atual /\ relato' = "saindo" /\ eof' = e /\ pc' = "listar"
      [] OTHER ->
           /\ atual' = atual /\ relato' = "opcao-invalida"
           /\ eof' \in AposLimpar(e)
           /\ pc' = "listar"

\* the if chain with the exit branch missing its break
explorarMansao_Se_SemBreak(o, e) ==
    CASE o \in {101, 69} ->
           /\ IF salas[atual].esquerda # NULL
              THEN atual' = salas[atual].esquerda /\ relato' = "nenhum"
                   /\ eof' = e
              ELSE atual' = atual /\ relato' = "sem-esquerda"
                   /\ eof' \in AposLimpar(e)
           /\ pc' = "loop"
      [] o \in {100, 68} ->
           /\ IF salas[atual].direita # NULL
              THEN atual' = salas[atual].direita /\ relato' = "nenhum"
                   /\ eof' = e
              ELSE atual' = atual /\ relato' = "sem-direita"
                   /\ eof' \in AposLimpar(e)
           /\ pc' = "loop"
      [] o \in {115, 83} ->
           atual' = atual /\ relato' = "saindo" /\ eof' = e /\ pc' = "loop"
      [] OTHER ->
           /\ atual' = atual /\ relato' = "opcao-invalida"
           /\ eof' \in AposLimpar(e)
           /\ pc' = "loop"

\* the if chain over opcao; e is the state of stdin after the scanf.  The
\* three error branches call limparBufferEntrada once more ("Pressione
\* ENTER"), which swallows a whole further line.
explorarMansao_Se(o, e) ==
    CASE o \in {101, 69} ->
           /\ IF salas[atual].esquerda # NULL
              THEN atual' = salas[atual].esquerda /\ relato' = "nenhum"
                   /\ eof' = e
              ELSE atual' = atual /\ relato' = "sem-esquerda"
                   /\ eof' \in AposLimpar(e)
           /\ pc' = "loop"
      [] o \in {100, 68} ->
           /\ IF salas[atual].direita # NULL
              THEN atual' = salas[atual].direita /\ relato' = "nenhum"
                   /\ eof' = e
              ELSE atual' = atual /\ relato' = "sem-direita"
                   /\ eof' \in AposLimpar(e)
           /\ pc' = "loop"
      [] o \in {115, 83} ->
           atual' = atual /\ relato' = "saindo" /\ eof' = e /\ pc' = "listar"
      [] OTHER ->
           /\ atual' = atual /\ relato' = "opcao-invalida"
           /\ eof' \in AposLimpar(e)
           /\ pc' = "loop"

explorarMansao_Le ==
    /\ pc = "prompt" /\ variante = "Mestre" /\ ~eof
    /\ \E l \in LinhasComando :
         /\ opcao' = scanfChar(l)
         /\ explorarMansao_Se(scanfChar(l), FALSE)
    /\ UNCHANGED <<variante, entrada, corrida,
                   salas, visitadas, nos, raizPistas, tabela,
                   listagem, nome, total, veredito, op, arg,
                   inseridas, achado>>

explorarMansao_EOF ==
    /\ pc = "prompt" /\ variante = "Mestre"
    /\ IF opcao = Indet
       THEN \E o \in CharQualquer : explorarMansao_Se(o, TRUE)
       ELSE explorarMansao_Se(opcao, TRUE)
    /\ UNCHANGED <<variante, entrada, corrida,
                   salas, opcao, visitadas, nos, raizPistas, tabela,
                   listagem, nome, total, veredito, op, arg,
                   inseridas, achado>>

\* ---- main after the exploration (Aventureiro and Mestre) ----

\* exibirPistas(raizPistas) in main
\* the listing with liberarPistas called right after it, before the accusation
main_Listar_Libera ==
    /\ pc = "listar"
    /\ listagem' = exibirPistas(nos, raizPistas)
    /\ nos' = <<>>
    /\ raizPistas' = NULL
    /\ pc' = IF variante = "Mestre" THEN "acusar" ELSE "fim"
    /\ UNCHANGED <<variante, entrada, corrida,
                   salas, atual, opcao, eof, visitadas, relato,
                   tabela, nome, total, veredito, op, arg,
                   inseridas, achado>>

main_Listar ==
    /\ pc = "listar"
    /\ listagem' = exibirPistas(nos, raizPistas)
    /\ pc' = IF variante = "Mestre" THEN "acusar" ELSE "fim"
    /\ UNCHANGED <<variante, entrada, corrida,
                   salas, atual, opcao, eof, visitadas, relato, nos,
                   raizPistas, tabela, nome, total, veredito, op, arg,
                   inseridas, achado>>

\* the body of verificarSuspeitoFinal once fgets has read the line l
verificarSuspeitoFinal(l) ==
    /\ nome' = fgetsNome(l)
    /\ IF fgetsNome(l) = <<>>
       THEN /\ relato' = "acusacao-abortada"
            /\ UNCHANGED <<total, veredito, listagem>>
       ELSE /\ total' = contarPistasPorSuspeitoNaBST(tabela, nos, raizPistas,
                                                    fgetsNome(l))
            /\ veredito' = Classificar(total')
            /\ relato' = "veredito"
            /\ listagem' = exibirPistas(nos, raizPistas)

verificarSuspeitoFinal_Le ==
    /\ pc = "acusar" /\ ~eof
    /\ \E l \in LinhasAcusacao : verificarSuspeitoFinal(l)
    /\ pc' = "fim"
    /\ UNCHANGED <<variante, entrada, corrida,
                   salas, atual, opcao, eof, visitadas, nos,
                   raizPistas, tabela, op, arg, inseridas, achado>>

\* fgets returns NULL
verificarSuspeitoFinal_EOF ==
    /\ pc = "acusar"
    /\ eof' = TRUE
    /\ relato' = "entrada-invalida"
    /\ pc' = "fim"
    /\ UNCHANGED <<variante, entrada, corrida,
                   salas, atual, opcao, visitadas, nos, raizPistas,
                   tabela, listagem, nome, total, veredito, op, arg,
                   inseridas, achado>>

Next ==
    \/ explorarSalas_Visita
    \/ explorarSalas_Le
    \/ explorarSalas_EOF
    \/ explorarSalasComPistas_Visita
    \/ explorarSalasComPistas_Le
    \/ explorarSalasComPistas_EOF
    \/ explorarMansao_Visita
    \/ explorarMansao_Le
    \/ explorarMansao_EOF
    \/ main_Listar
    \/ verificarSuspeitoFinal_Le
    \/ verificarSuspeitoFinal_EOF

Spec == Init /\ [][Next]_vars

----------------------------------------------------------------------------
(* The functions called directly, on any store and any table: the empty    *)
(* store and the empty table, then any sequence of calls of inserirPista,  *)
(* inserirNaHash and verificarSuspeitoFinal with arguments from small sets. *)

\* bounds of the exploration of the API
MaxNos == 3
MaxAssoc == 2

\* a text of MAX_PISTA bytes, one more than a pista field can hold
TextoLongo == [i \in 1..MAX_PISTA |-> IF i < MAX_PISTA THEN 97 ELSE 98]

\* the texts given to inserirPista: "", "a", "A" and the over-long text
Textos == {<<>>, <<97>>, <<65>>, TextoLongo}

\* the keys and the values given to inserirNaHash: "A" and "a", each with
\* either suspect
TextosHash == {<<65>>, <<97>>}
Suspeitos == {Jardineiro, Governanta}

\* the lines given to verificarSuspeitoFinal
LinhasApi == {Jardineiro, Desconhecido, <<>>}

\* number of SuspeitoNode objects in the table
RECURSIVE ContaNos(_, _)
ContaNos(tab, i) ==
    IF i >= TAM_HASH THEN 0 ELSE Len(tab[i]) + ContaNos(tab, i + 1)

InitApi ==
    /\ variante \in {"Aventureiro", "Mestre"}
    /\ pc = "api"
    /\ salas = <<>>
    /\ atual = NULL
    /\ opcao = Indet
    /\ eof = FALSE
    /\ visitadas = {}
    /\ relato = "nenhum"
    /\ nos = <<>>
    /\ raizPistas = NULL
    /\ tabela = inicializarHash
    /\ listagem = <<>>
    /\ nome = NomeIndet
    /\ total = NaoCalc
    /\ veredito = "nenhum"
    /\ op = "nenhuma"
    /\ arg = <<>>
    /\ inseridas = <<>>
    /\ achado = <<>>
    /\ entrada = <<>>
    /\ corrida = <<>>

\* raizPistas = inserirPista(raizPistas, t).  In the Aventureiro program a
\* text that does not fit the field is a buffer overflow: undefined.
Api_inserirPista ==
    /\ pc = "api"
    /\ \E t \in Textos :
         LET r == IF variante = "Mestre"
                  THEN inserirPista(nos, raizPistas, t)
                  ELSE inserirPistaAv(nos, raizPistas, t)
         IN /\ Len(r.nos) <= MaxNos
            /\ IF variante = "Aventureiro" /\ Estouro(r.nos)
               THEN pc' = "indefinido" /\ UNCHANGED <<nos, raizPistas>>
               ELSE pc' = pc /\ nos' = r.nos /\ raizPistas' = r.raiz
            /\ arg' = t
    /\ op' = "inserirPista"
    /\ nome' = NomeIndet /\ total' = NaoCalc /\ veredito' = "nenhum"
    /\ relato' = "nenhum" /\ listagem' = <<>>
    /\ UNCHANGED <<variante, entrada, corrida,
                   salas, atual, opcao, eof, visitadas, tabela,
                   inseridas, achado>>

\* inserirNaHash(tabela, c, s)
Api_inserirNaHash ==
    /\ pc = "api" /\ variante = "Mestre"
    /\ ContaNos(tabela, 0) < MaxAssoc
    /\ \E c \in TextosHash, s \in Suspeitos :
         /\ tabela' = inserirNaHash(tabela, c, s)
         /\ inseridas' = Append(inseridas, [pista |-> c, suspeito |-> s])
         /\ arg' = c
    /\ op' = "inserirNaHash"
    /\ nome' = NomeIndet /\ total' = NaoCalc /\ veredito' = "nenhum"
    /\ relato' = "nenhum" /\ listagem' = <<>>
    /\ UNCHANGED <<variante, entrada, corrida,
                   pc, salas, atual, opcao, eof, visitadas, nos,
                   raizPistas,
                   achado>>

\* verificarSuspeitoFinal(tabela, raizPistas) with the line l on stdin
Api_verificarSuspeitoFinal ==
    /\ pc = "api" /\ variante = "Mestre"
    /\ \E l \in LinhasApi :
         /\ verificarSuspeitoFinal(l)
         /\ arg' = l
    /\ op' = "verificarSuspeitoFinal"
    /\ UNCHANGED <<variante, entrada, corrida,
                   pc, salas, atual, opcao, eof, visitadas, nos,
                   raizPistas, tabela, inseridas, achado>>

NextApi ==
    \/ Api_inserirPista
    \/ Api_inserirNaHash
    \/ Api_verificarSuspeitoFinal

SpecApi == InitApi /\ [][NextApi]_vars

----------------------------------------------------------------------------
(* Vocabulary of the properties *)

\* the exploration is over
Finished == pc \in {"listar", "acusar", "fim"}

\* the set of elements of a sequence
Elems(s) == {s[i] : i \in 1..Len(s)}

\* a sequence of texts is strictly ascending under strcmp
EstritamenteCrescente(s) ==
    \A i \in 1..(Len(s) - 1) : strcmp(s[i], s[i + 1]) < 0

\* the texts of the Clue Store, as enumerated
Enumeracao == exibirPistas(nos, raizPistas)

\* the non-empty clues of the rooms visited so far
PistasVisitadas == {salas[r].pista : r \in visitadas} \ {<<>>}

\* the command o cannot be carried out at room a
Invalida(o, a) ==
    \/ o \in {101, 69} /\ salas[a].esquerda = NULL
    \/ o \in {100, 68} /\ salas[a].direita = NULL
    \/ o \notin {101, 69, 100, 68, 115, 83}

\* a line of white space only (the empty line included)
SoBrancos(s) == \A i \in 1..Len(s) : s[i] \in Brancos

\* the nodes of the store whose clue the table resolves to the suspect s
NosQueApontam(s) ==
    {i \in 1..Len(nos) : encontrarSuspeito(tabela, nos[i].pista) = s}

\* the table holds an entry whose key is the text p
Associada(p) ==
    \E b \in 0..(TAM_HASH - 1) : \E k \in 1..Len(tabela[b]) :
        tabela[b][k].pista = p

\* the store built by inserting the texts of s, in order, into the empty store
RECURSIVE LojaDe(_)
LojaDe(s) ==
    IF s = <<>> THEN [nos |-> <<>>, raiz |-> NULL]
    ELSE LET ant == LojaDe(SubSeq(s, 1, Len(s) - 1))
         IN inserirPista(ant.nos, ant.raiz, s[Len(s)])

\* the count for suspect n over the store built from s, with the table of main
ContagemExemplo(s, n) ==
    contarPistasPorSuspeitoNaBST(TabelaMestre, LojaDe(s).nos, LojaDe(s).raiz, n)

\* the example of the specification, in both insertion orders
ExemploJardineiro ==
    <<ContagemExemplo(<<PistaHall, PistaJardim>>, Jardineiro),
      ContagemExemplo(<<PistaJardim, PistaHall>>, Jardineiro)>>

ExemploGovernanta ==
    <<ContagemExemplo(<<PistaHall, PistaJardim>>, Governanta),
      ContagemExemplo(<<PistaJardim, PistaHall>>, Governanta)>>

----------------------------------------------------------------------------
(* Properties *)

\* C1: in every exploration loop (explorarSalas, explorarSalasComPistas,
\* explorarMansao) no command is read while the current room is a leaf: the
\* program never waits at the prompt in a room with neither edge.
C1_NenhumComandoNaFolha ==
    pc = "prompt" => ~Folha(salas, atual)

\* C2: after any sequence of inserirPista calls from the empty store, the
\* enumeration of exibirPistas is strictly ascending under strcmp.
C2_EnumeracaoCrescente ==
    pc = "api" => EstritamenteCrescente(Enumeracao)

\* C3: inserting a text that was just inserted is a no-op: the second
\* inserirPista of the same text leaves the enumeration as it was.
C3_InsercaoIdempotente ==
    [][(pc = "api" /\ op = "inserirPista" /\ op' = "inserirPista"
        /\ arg' = arg /\ pc' = "api")
       => exibirPistas(nos', raizPistas') = Enumeracao]_vars

\* C4: in explorarMansao, at every prompt and once the exploration is over,
\* the Clue Store holds exactly the non-empty clues of the rooms visited so
\* far, each once, enumerated in ascending order; after hall, left, right
\* these are the clues of Jardim, Hall de Entrada and Biblioteca in that order.
C4_PistasDasSalasVisitadas ==
    (variante = "Mestre" /\ (pc = "prompt" \/ Finished)) =>
        /\ Elems(Enumeracao) = PistasVisitadas
        /\ Len(Enumeracao) = Cardinality(PistasVisitadas)
        /\ Len(nos) = Len(Enumeracao)
        /\ EstritamenteCrescente(Enumeracao)
        /\ 1 \in visitadas
        /\ visitadas = {1, 2, 5}
             => Enumeracao = <<PistaJardim, PistaHall, PistaBiblioteca>>

C4_Witness ==
    /\ variante = "Mestre" /\ pc = "fim"
    /\ visitadas = {1, 2, 5}
    /\ listagem = <<PistaJardim, PistaHall, PistaBiblioteca>>

\* C5: whenever a non-empty name was accused, exactly one verdict is given and
\* it is decided by the count alone: 2 or more confirmed, exactly 1 weak,
\* 0 unfounded.
C5_VereditoPelaContagem ==
    (nome # NomeIndet /\ nome # <<>>) =>
        /\ total \in Nat
        /\ veredito \in {"confirmada", "fragil", "sem-fundamento"}
        /\ veredito = "confirmada" <=> total >= 2
        /\ veredito = "fragil" <=> total = 1
        /\ veredito = "sem-fundamento" <=> total = 0

C5_Witness ==
    nome # NomeIndet /\ nome # <<>> /\ total = 3 /\ veredito = "confirmada"

\* C6: the count returned by contarPistasPorSuspeitoNaBST is the number of
\* entries of the store whose lookup in the table equals the accused name,
\* whatever the shape the insertion order gave the store; with the table of
\* main, the store of "Pegadas de lama recentes" and "Chave antiga caida
\* entre as flores" gives 2 for Jardineiro and 0 for Governanta in both
\* insertion orders.
C6_ContagemExata ==
    /\ (nome # NomeIndet /\ nome # <<>>) =>
           total = Cardinality(NosQueApontam(nome))
    /\ ExemploJardineiro = <<2, 2>>
    /\ ExemploGovernanta = <<0, 0>>

C6_Witness ==
    /\ nome = Jardineiro /\ total = 2
    /\ Len(nos) = 3
    /\ nos[raizPistas].esquerda # NULL /\ nos[raizPistas].direita # NULL

\* C7: when the accused name read is empty or white space only, the accusation
\* is aborted: no count is computed and no verdict is reported.
C7_BrancoAbortaAcusacao ==
    (nome # NomeIndet /\ SoBrancos(nome)) =>
        total = NaoCalc /\ veredito = "nenhum" /\ relato = "acusacao-abortada"

\* C8: for every accused name, the count is the number of store entries that
\* have an association in the table resolving to that name; an entry without
\* any association adds nothing.
C8_SemAssociacaoNaoConta ==
    (nome # NomeIndet /\ nome # <<>>) =>
        total = Cardinality({i \in NosQueApontam(nome) :
                               Associada(nos[i].pista)})

\* C9: a command that cannot be carried out (a direction without an edge, or
\* anything other than left, right, exit) leaves the current room and the
\* Clue Store as they were and sends the loop back to its top with an error
\* report; and visiting again a room already visited leaves the store as it
\* was and prompts again.
C9_EntradaInvalidaNadaMuda ==
    [][/\ (pc = "prompt" /\ opcao' # Indet /\ Invalida(opcao', atual)) =>
            /\ atual' = atual
            /\ nos' = nos /\ raizPistas' = raizPistas
            /\ visitadas' = visitadas
            /\ pc' = "loop"
            /\ relato' \in {"sem-esquerda", "sem-direita", "opcao-invalida"}
       /\ (pc = "loop" /\ atual \in visitadas) =>
            /\ atual' = atual
            /\ nos' = nos /\ raizPistas' = raizPistas
            /\ pc' = "prompt"]_vars

C9_Witness ==
    /\ pc = "prompt" /\ atual = 3 /\ opcao = 101
    /\ salas[atual].esquerda = NULL
    /\ Len(nos) = 2

\* C10: an exit command moves the engine to Finished in that same step, in
\* the room where it was entered, and after that no room is visited and the
\* Clue Store does not change.
C10_SairEncerraNaHora ==
    [][/\ (pc = "prompt" /\ opcao' \in {115, 83}) =>
            /\ pc' \in {"listar", "fim"}
            /\ atual' = atual
            /\ nos' = nos /\ raizPistas' = raizPistas
            /\ visitadas' = visitadas
       /\ Finished =>
            /\ pc' \in {"listar", "acusar", "fim"}
            /\ atual' = atual
            /\ nos' = nos /\ raizPistas' = raizPistas
            /\ visitadas' = visitadas]_vars

C10_Witness ==
    /\ pc = "fim" /\ opcao \in {115, 83}
    /\ ~Folha(salas, atual)
    /\ visitadas = {1, 2}

\* the rooms that point at room a
Pais(s, a) ==
    {p \in 1..Len(s) : s[p].esquerda = a \/ s[p].direita = a}

\* the number of moves that lead from the hall (room 1) to room a
RECURSIVE Profundidade(_, _)
Profundidade(s, a) ==
    IF Pais(s, a) = {} THEN 0
    ELSE 1 + Profundidade(s, CHOOSE p \in Pais(s, a) : TRUE)

\* C11: the exploration ends within the depth of the mansion: once the room
\* reached is a leaf, or lies 2 moves from the hall, the engine is Finished
\* as soon as the room has been shown; and right after an exit command it is
\* Finished.
C11_TerminaNaProfundidade ==
    /\ (atual \in visitadas /\ pc # "loop"
        /\ (Folha(salas, atual) \/ Profundidade(salas, atual) >= 2))
           => Finished
    /\ relato = "saindo" => Finished

----------------------------------------------------------------------------
(* The hash table called directly: from the empty table, any sequence of   *)
(* inserirNaHash and encontrarSuspeito calls with arguments from small sets *)

\* bound of the number of inserirNaHash calls
MaxChaves == 2

\* a text of MAX_PISTA bytes whose last byte, "c" = 99, is a multiple of
\* TAM_HASH: the text and its first MAX_PISTA - 1 bytes have the same hash
TextoLongoC == [i \in 1..MAX_PISTA |-> IF i < MAX_PISTA THEN 97 ELSE 99]

\* the keys given to inserirNaHash: "A" and "L" (both in bucket 10), "á"
\* (two bytes above 127) and the over-long text
ChavesHash == {<<65>>, <<76>>, <<195, 161>>, TextoLongoC}

\* the texts given to encontrarSuspeito: the keys, "b" (bucket 10, never a
\* key) and the first 127 bytes of the over-long text
TextosBusca ==
    ChavesHash \cup {<<98>>, SubSeq(TextoLongoC, 1, MAX_PISTA - 1)}

InitHash ==
    /\ variante = "Mestre"
    /\ pc = "hash"
    /\ salas = <<>>
    /\ atual = NULL
    /\ opcao = Indet
    /\ eof = FALSE
    /\ visitadas = {}
    /\ relato = "nenhum"
    /\ nos = <<>>
    /\ raizPistas = NULL
    /\ tabela = inicializarHash
    /\ listagem = <<>>
    /\ nome = NomeIndet
    /\ total = NaoCalc
    /\ veredito = "nenhum"
    /\ op = "nenhuma"
    /\ arg = <<>>
    /\ inseridas = <<>>
    /\ achado = <<>>
    /\ entrada = <<>>
    /\ corrida = <<>>

\* inserirNaHash(tabela, c, s)
Hash_inserirNaHash ==
    /\ pc = "hash"
    /\ Len(inseridas) < MaxChaves
    /\ \E c \in ChavesHash, s \in Suspeitos :
         /\ tabela' = inserirNaHash(tabela, c, s)
         /\ inseridas' = Append(inseridas, [pista |-> c, suspeito |-> s])
         /\ arg' = c
    /\ op' = "inserirNaHash"
    /\ achado' = <<>>
    /\ UNCHANGED <<variante, entrada, corrida,
                   pc, salas, atual, opcao, eof, visitadas, relato,
                   nos, raizPistas, listagem, nome, total, veredito>>

\* encontrarSuspeito(tabela, c)
Hash_encontrarSuspeito ==
    /\ pc = "hash"
    /\ \E c \in TextosBusca :
         /\ achado' = encontrarSuspeito(tabela, c)
         /\ arg' = c
    /\ op' = "encontrarSuspeito"
    /\ UNCHANGED <<variante, entrada, corrida,
                   pc, salas, atual, opcao, eof, visitadas, relato,
                   nos, raizPistas, tabela, listagem, nome, total, veredito,
                   inseridas>>

NextHash ==
    \/ Hash_inserirNaHash
    \/ Hash_encontrarSuspeito

SpecHash == InitHash /\ [][NextHash]_vars

\* the positions of the history where the key is the text c
InseridaEm(c) == {k \in 1..Len(inseridas) : inseridas[k].pista = c}

\* the greatest element of a non-empty set of numbers
Maior(S) == CHOOSE k \in S : \A j \in S : j <= k

\* the sum of the byte values of the text c, value by value: each value of
\* V times the number of places where it stands
RECURSIVE SomaPorValor(_, _)
SomaPorValor(c, V) ==
    IF V = {} THEN 0
    ELSE LET v == CHOOSE x \in V : TRUE
         IN v * Cardinality({i \in 1..Len(c) : c[i] = v})
            + SomaPorValor(c, V \ {v})

\* the bucket the claim gives the text c: the sum of its bytes modulo 11
BaldeDe(c) == SomaPorValor(c, Elems(c)) % 11

\* the history entries that belong to bucket b, most recent first, as the
\* nodes inserirNaHash makes of them
RECURSIVE CadeiaDe(_, _)
CadeiaDe(h, b) ==
    IF h = <<>> THEN <<>>
    ELSE LET e == h[Len(h)]
             resto == CadeiaDe(SubSeq(h, 1, Len(h) - 1), b)
         IN IF BaldeDe(e.pista) = b
            THEN <<[pista |-> strncpyTerm(e.pista, MAX_PISTA),
                    suspeito |-> strncpyTerm(e.suspeito, MAX_NOME)]>>
                 \o resto
            ELSE resto

\* C12: the lookup of a text that was never given to inserirNaHash returns
\* the sentinel "Desconhecido", whatever the table holds.
C12_AusenteDaDesconhecido ==
    (op = "encontrarSuspeito" /\ InseridaEm(arg) = {})
        => achado = Desconhecido

\* C13: each inserirNaHash prepends: every chain lists the entries of its
\* bucket most recent first, none lost; and a text inserted more than once
\* is looked up to the suspect of its most recent insertion.
C13_MaisRecentePrimeiro ==
    /\ \A b \in 0..(TAM_HASH - 1) : tabela[b] = CadeiaDe(inseridas, b)
    /\ (op = "encontrarSuspeito" /\ Cardinality(InseridaEm(arg)) >= 2)
          => achado = inseridas[Maior(InseridaEm(arg))].suspeito

\* C14: hash(text) is the sum of the bytes of the text, each taken as
\* 0..255, modulo 11: every pair given to inserirNaHash sits in the bucket
\* with that index, an index in 0..10, and equal texts sit in one bucket.
C14_HashSomaMod11 ==
    /\ DOMAIN tabela = 0..10
    /\ \A k \in 1..Len(inseridas) :
         /\ BaldeDe(inseridas[k].pista) \in 0..10
         /\ \E j \in 1..Len(tabela[BaldeDe(inseridas[k].pista)]) :
              /\ tabela[BaldeDe(inseridas[k].pista)][j].pista
                   = strncpyTerm(inseridas[k].pista, MAX_PISTA)
              /\ tabela[BaldeDe(inseridas[k].pista)][j].suspeito
                   = inseridas[k].suspeito
    /\ \A b \in 0..10 : \A j \in 1..Len(tabela[b]) :
         \E k \in 1..Len(inseridas) :
            /\ BaldeDe(inseridas[k].pista) = b
            /\ strncpyTerm(inseridas[k].pista, MAX_PISTA) = tabela[b][j].pista
    /\ ContaNos(tabela, 0) = Len(inseridas)

C14_Witness ==
    /\ pc = "hash"
    /\ Len(tabela[4]) = 1 /\ tabela[4][1].pista = <<195, 161>>
    /\ Len(tabela[10]) = 1 /\ Len(tabela[10][1].pista) = MAX_PISTA - 1

----------------------------------------------------------------------------
\* the rooms reached from the rooms of R by left and right edges
RECURSIVE Alcancaveis(_, _)
Alcancaveis(s, R) ==
    LET N == (R \cup {s[a].esquerda : a \in R} \cup {s[a].direita : a \in R})
             \ {NULL}
    IN IF N = R THEN R ELSE Alcancaveis(s, N)

\* the rooms form a tree rooted in the hall: the hall has no parent, every
\* other room exactly one, over one edge only, and every room is reached
\* from the hall
ArvoreMansao(s) ==
    /\ Pais(s, 1) = {}
    /\ \A a \in 2..Len(s) :
         /\ Cardinality(Pais(s, a)) = 1
         /\ \A p \in Pais(s, a) : s[p].esquerda # s[p].direita
    /\ Alcancaveis(s, {1}) = 1..Len(s)

\* C15: the static structures are read-only once built: the mansion is a
\* tree in every state, and no step of the exploration, the listing or the
\* accusation changes a room (name, clue, left, right) or changes, adds or
\* removes an entry of the hash table.
C15_EstruturasSoLeitura ==
    /\ [](ArvoreMansao(salas))
    /\ [][salas' = salas /\ tabela' = tabela]_vars

C15_Witness ==
    /\ variante = "Mestre"
    /\ pc = "fim"
    /\ veredito # "nenhum"
    /\ Cardinality(visitadas) >= 3
    /\ salas = MansaoMestre
    /\ tabela = TabelaMestre
    /\ ContaNos(tabela, 0) = Len(ParesMestre)

\* C16: once the exploration is Finished the store no longer changes: the
\* listing and the accusation, with a verdict or aborted on an empty name,
\* leave the nodes, the root and the set of visited rooms as they were.
C16_LojaCongelada ==
    [][Finished => (nos' = nos /\ raizPistas' = raizPistas
                    /\ visitadas' = visitadas)]_vars

C16_Witness ==
    /\ variante = "Mestre"
    /\ pc = "fim"
    /\ relato = "acusacao-abortada"
    /\ Len(nos) >= 2
    /\ Len(listagem) = Len(nos)

----------------------------------------------------------------------------
\* C17: inserting the empty text is a no-op in every variant of
\* inserirPista: the store after the call is the store before it, and the
\* empty store stays empty.
C17_VazioNaoInsere ==
    [][(pc = "api" /\ op' = "inserirPista" /\ arg' = <<>>)
          => (nos' = nos /\ raizPistas' = raizPistas)]_vars

----------------------------------------------------------------------------
\* the child pointers of the heap h that differ in the heap g, as pairs of
\* node and side
PonteirosMudados(h, g) ==
    {<<i, "esquerda">> : i \in {j \in 1..Len(h) : g[j].esquerda # h[j].esquerda}}
    \cup
    {<<i, "direita">> : i \in {j \in 1..Len(h) : g[j].direita # h[j].direita}}

\* C20: inserirPista never rebalances.  A call of the Mestre inserirPista
\* either leaves the store as it is or appends one node, a leaf, hung on one
\* pointer that was NULL; every node already there keeps its text and its
\* other pointers, so its parent and its side; a non-empty text that equals
\* no stored text does add a node; the root, once set, is the node of the
\* first text inserted and never changes.
C20_SemRebalanceamento ==
    [][(variante = "Mestre" /\ op' = "inserirPista") =>
         /\ Len(nos') \in {Len(nos), Len(nos) + 1}
         /\ \A i \in 1..Len(nos) :
              /\ nos'[i].pista = nos[i].pista
              /\ nos'[i].esquerda \in {nos[i].esquerda, Len(nos) + 1}
              /\ nos'[i].direita \in {nos[i].direita, Len(nos) + 1}
              /\ nos[i].esquerda # NULL => nos'[i].esquerda = nos[i].esquerda
              /\ nos[i].direita # NULL => nos'[i].direita = nos[i].direita
         /\ Len(nos') = Len(nos) => nos' = nos
         /\ Len(nos') = Len(nos) + 1 =>
              /\ nos'[Len(nos')] = NovoPistaNode(strncpyTerm(arg', MAX_PISTA))
              /\ Cardinality(PonteirosMudados(nos, nos'))
                   = IF raizPistas = NULL THEN 0 ELSE 1
         /\ (arg' # <<>> /\ \A i \in 1..Len(nos) : nos[i].pista # arg')
              => Len(nos') = Len(nos) + 1
         /\ raizPistas # NULL => raizPistas' = raizPistas
         /\ raizPistas = NULL =>
              raizPistas' = IF arg' = <<>> THEN NULL ELSE 1]_vars

C20_Witness ==
    /\ variante = "Mestre"
    /\ pc = "api"
    /\ op = "inserirPista"
    /\ Len(nos) = 3
    /\ raizPistas = 1
    /\ nos[1].esquerda # NULL
    /\ nos[nos[1].esquerda].direita = 3 \/ nos[nos[1].esquerda].esquerda = 3

----------------------------------------------------------------------------
(* The Mestre main from its first line, with the allocations that may fail: *)
(* the six criarSala calls, the links and inicializarHash, the six          *)
(* inserirNaHash calls, then the exploration, the listing and the           *)
(* accusation.  A malloc that returns NULL leads to exit(EXIT_FAILURE):     *)
(* pc = "abortado".                                                         *)

\* the arguments of the six criarSala calls of main, in order
ArgsSalasMestre ==
    <<[nome |-> NomeHall, pista |-> PistaHall],
      [nome |-> NomeBiblioteca, pista |-> PistaBiblioteca],
      [nome |-> NomeCozinha, pista |-> PistaCozinha],
      [nome |-> NomeEstudo, pista |-> PistaEstudo],
      [nome |-> NomeJardim, pista |-> PistaJardim],
      [nome |-> NomeSotao, pista |-> PistaSotao]>>

InitAloc ==
    /\ variante = "Mestre"
    /\ pc = "criarSala"
    /\ salas = <<>>
    /\ atual = NULL
    /\ opcao = Indet
    /\ eof = FALSE
    /\ visitadas = {}
    /\ relato = "nenhum"
    /\ nos = <<>>
    /\ raizPistas = NULL
    /\ tabela = inicializarHash
    /\ listagem = <<>>
    /\ nome = NomeIndet
    /\ total = NaoCalc
    /\ veredito = "nenhum"
    /\ op = "nenhuma"
    /\ arg = <<>>
    /\ inseridas = <<>>
    /\ achado = <<>>
    /\ entrada = <<>>
    /\ corrida = <<>>

\* the next criarSala call of main, malloc succeeding
main_criarSala ==
    /\ pc = "criarSala"
    /\ salas' = Append(salas, criarSala(ArgsSalasMestre[Len(salas) + 1].nome,
                                        ArgsSalasMestre[Len(salas) + 1].pista))
    /\ pc' = IF Len(salas') = Len(ArgsSalasMestre) THEN "ligar" ELSE pc
    /\ UNCHANGED <<variante, entrada, corrida,
                   atual, opcao, eof, visitadas, relato, nos,
                   raizPistas, tabela, listagem, nome, total, veredito, op,
                   arg, inseridas, achado>>

\* the next criarSala call of main, malloc returning NULL: message and exit
main_criarSala_Falha ==
    /\ pc = "criarSala"
    /\ relato' = "erro-alocacao"
    /\ pc' = "abortado"
    /\ UNCHANGED <<variante, entrada, corrida,
                   salas, atual, opcao, eof, visitadas, nos,
                   raizPistas, tabela, listagem, nome, total, veredito, op,
                   arg, inseridas, achado>>

\* the five links, raizPistas = NULL and inicializarHash(tabela)
main_Ligar ==
    /\ pc = "ligar"
    /\ salas' = Ligar(salas)
    /\ raizPistas' = NULL
    /\ tabela' = inicializarHash
    /\ pc' = "inserirNaHash"
    /\ UNCHANGED <<variante, entrada, corrida,
                   atual, opcao, eof, visitadas, relato, nos,
                   listagem, nome, total, veredito, op, arg, inseridas,
                   achado>>

\* the next inserirNaHash call of main, malloc succeeding; after the last
\* one main calls explorarMansao(hall, ...)
main_inserirNaHash ==
    /\ pc = "inserirNaHash"
    /\ tabela' = inserirNaHash(tabela, ParesMestre[Len(inseridas) + 1].pista,
                               ParesMestre[Len(inseridas) + 1].suspeito)
    /\ inseridas' = Append(inseridas, ParesMestre[Len(inseridas) + 1])
    /\ IF Len(inseridas') = Len(ParesMestre)
       THEN pc' = "loop" /\ atual' = 1
       ELSE pc' = pc /\ atual' = atual
    /\ UNCHANGED <<variante, entrada, corrida,
                   salas, opcao, eof, visitadas, relato, nos,
                   raizPistas, listagem, nome, total, veredito, op, arg,
                   achado>>

\* the failed inserirNaHash call printing its message and returning, main
\* going on with the next call
main_inserirNaHash_Falha_Retorna ==
    /\ pc = "inserirNaHash"
    /\ relato' = "erro-alocacao"
    /\ inseridas' = Append(inseridas, ParesMestre[Len(inseridas) + 1])
    /\ IF Len(inseridas') = Len(ParesMestre)
       THEN pc' = "loop" /\ atual' = 1
       ELSE pc' = pc /\ atual' = atual
    /\ UNCHANGED <<variante, entrada, corrida,
                   salas, opcao, eof, visitadas, nos, raizPistas,
                   tabela, listagem, nome, total, veredito, op, arg, achado>>

\* the next inserirNaHash call of main, malloc returning NULL: message and
\* exit, before the node is made or linked
main_inserirNaHash_Falha ==
    /\ pc = "inserirNaHash"
    /\ relato' = "erro-alocacao"
    /\ pc' = "abortado"
    /\ UNCHANGED <<variante, entrada, corrida,
                   salas, atual, opcao, eof, visitadas, nos,
                   raizPistas, tabela, listagem, nome, total, veredito, op,
                   arg, inseridas, achado>>

\* a visit whose inserirPista reaches malloc and malloc returns NULL: the
\* room has been announced, the exit comes before any pointer is assigned
explorarMansao_Visita_Falha ==
    /\ pc = "loop" /\ variante = "Mestre"
    /\ inserirPista(nos, raizPistas, salas[atual].pista).nos # nos
    /\ visitadas' = visitadas \cup {atual}
    /\ relato' = "erro-alocacao"
    /\ pc' = "abortado"
    /\ UNCHANGED <<variante, entrada, corrida,
                   salas, atual, opcao, eof, nos, raizPistas,
                   tabela, listagem, nome, total, veredito, op, arg,
                   inseridas, achado>>

NextAloc ==
    \/ main_criarSala
    \/ main_criarSala_Falha
    \/ main_Ligar
    \/ main_inserirNaHash
    \/ main_inserirNaHash_Falha
    \/ explorarMansao_Visita
    \/ explorarMansao_Visita_Falha
    \/ explorarMansao_Le
    \/ explorarMansao_EOF
    \/ main_Listar
    \/ verificarSuspeitoFinal_Le
    \/ verificarSuspeitoFinal_EOF

SpecAloc == InitAloc /\ [][NextAloc]_vars

\* C18: an allocation failure is fatal.  The failure message is only ever
\* reported by a program that has exited with the failure status; the step
\* of the failure leaves the rooms, the store and the table as they were
\* (no partly built node is linked), and after it no step runs.
C18_FalhaDeAlocacaoFatal ==
    [][/\ relato' = "erro-alocacao" =>
            /\ pc' = "abortado"
            /\ salas' = salas /\ tabela' = tabela
            /\ nos' = nos /\ raizPistas' = raizPistas
            /\ inseridas' = inseridas
            /\ listagem' = listagem /\ veredito' = veredito
       /\ pc = "abortado" => FALSE]_vars

C18_Witness ==
    /\ pc = "abortado"
    /\ relato = "erro-alocacao"
    /\ Len(salas) = Len(ArgsSalasMestre)
    /\ tabela = TabelaApos(3)
    /\ Len(inseridas) = 3

\* the construction of SpecAloc ends in the state Spec starts the Mestre
\* program in
ConstrucaoMestre ==
    (pc = "loop" /\ visitadas = {}) =>
        /\ salas = MansaoMestre /\ tabela = TabelaMestre
        /\ inseridas = ParesMestre /\ atual = 1 /\ nos = <<>>

----------------------------------------------------------------------------
(* criarSala called directly, in the three programs, with names and clues   *)
(* from small sets that include texts longer than the fields.               *)

\* bound of the number of criarSala calls
MaxSalas == 2

\* char nome[50] of the Sala of the Novato and Aventureiro programs
AV_MAX_NOME == 50

\* a name of MAX_NOME bytes: one more than the longest the Mestre field holds
NomeLongo == [i \in 1..MAX_NOME |-> 78]

\* a clue of AV_MAX_PISTA bytes: one more than the longest the Aventureiro
\* field holds
Pista100 == [i \in 1..AV_MAX_PISTA |-> 112]

\* a name of AV_MAX_NOME bytes: one more than the longest the Novato and
\* Aventureiro fields hold
Nome50 == [i \in 1..AV_MAX_NOME |-> 110]

NomesSala == {NomeHall, Nome50, NomeLongo}

PistasSala == {<<>>, PistaHall, Pista100, TextoLongo}

InitSala ==
    /\ variante \in {"Novato", "Aventureiro", "Mestre"}
    /\ pc = "sala"
    /\ salas = <<>>
    /\ atual = NULL
    /\ opcao = Indet
    /\ eof = FALSE
    /\ visitadas = {}
    /\ relato = "nenhum"
    /\ nos = <<>>
    /\ raizPistas = NULL
    /\ tabela = inicializarHash
    /\ listagem = <<>>
    /\ nome = NomeIndet
    /\ total = NaoCalc
    /\ veredito = "nenhum"
    /\ op = "nenhuma"
    /\ arg = <<>>
    /\ inseridas = <<>>
    /\ achado = <<>>
    /\ entrada = <<>>
    /\ corrida = <<>>

\* criarSala(n, p) of the Mestre program: strncpy into both fields
Sala_criarSala ==
    /\ pc = "sala" /\ variante = "Mestre"
    /\ Len(salas) < MaxSalas
    /\ \E n \in NomesSala, p \in PistasSala :
         /\ salas' = Append(salas, criarSala(n, p))
         /\ arg' = p
    /\ op' = "criarSala"
    /\ UNCHANGED <<variante, entrada, corrida,
                   pc, atual, opcao, eof, visitadas, relato, nos,
                   raizPistas, tabela, listagem, nome, total, veredito,
                   inseridas, achado>>

\* criarSala(n, p) of the Aventureiro program: strcpy into nome[50] and
\* pista[100]; a text that does not fit is a buffer overflow: undefined
Sala_criarSalaAv ==
    /\ pc = "sala" /\ variante = "Aventureiro"
    /\ Len(salas) < MaxSalas
    /\ \E n \in NomesSala, p \in PistasSala :
         /\ IF Len(n) >= AV_MAX_NOME \/ Len(p) >= AV_MAX_PISTA
            THEN pc' = "indefinido" /\ salas' = salas
            ELSE pc' = pc /\ salas' = Append(salas, criarSalaAv(n, p))
         /\ arg' = p
    /\ op' = "criarSala"
    /\ UNCHANGED <<variante, entrada, corrida,
                   atual, opcao, eof, visitadas, relato, nos,
                   raizPistas, tabela, listagem, nome, total, veredito,
                   inseridas, achado>>

\* criarSala(n) of the Novato program: strcpy into nome[50]; the room has
\* no clue
Sala_criarSalaNovato ==
    /\ pc = "sala" /\ variante = "Novato"
    /\ Len(salas) < MaxSalas
    /\ \E n \in NomesSala :
         IF Len(n) >= AV_MAX_NOME
         THEN pc' = "indefinido" /\ salas' = salas
         ELSE pc' = pc /\ salas' = Append(salas, criarSalaNovato(n))
    /\ arg' = <<>>
    /\ op' = "criarSala"
    /\ UNCHANGED <<variante, entrada, corrida,
                   atual, opcao, eof, visitadas, relato, nos,
                   raizPistas, tabela, listagem, nome, total, veredito,
                   inseridas, achado>>

NextSala ==
    \/ Sala_criarSala
    \/ Sala_criarSalaAv
    \/ Sala_criarSalaNovato

SpecSala == InitSala /\ [][NextSala]_vars

\* the number of bytes of the clue field of a room
CapacidadePista == IF variante = "Mestre" THEN MAX_PISTA ELSE AV_MAX_PISTA

\* the number of bytes of the name field of a room
CapacidadeNome == IF variante = "Mestre" THEN MAX_NOME ELSE AV_MAX_NOME

\* C19: criarSala never rejects oversized input: in every variant every
\* call creates the room, unlinked, and the room holds the clue given cut to
\* the capacity of the field minus one (127 bytes in the Mestre program)
\* and a name cut likewise.
C19_CriarSalaTrunca ==
    [][op' = "criarSala" =>
         /\ pc' = "sala"
         /\ Len(salas') = Len(salas) + 1
         /\ SubSeq(salas', 1, Len(salas)) = salas
         /\ Folha(salas', Len(salas'))
         /\ \E n \in NomesSala :
              salas'[Len(salas')].nome = strncpyTerm(n, CapacidadeNome)
         /\ variante # "Novato" =>
              /\ salas'[Len(salas')].pista = strncpyTerm(arg', CapacidadePista)
              /\ Len(salas'[Len(salas')].pista) < CapacidadePista]_vars

----------------------------------------------------------------------------
\* the children of room a
Filhos(s, a) == {s[a].esquerda, s[a].direita} \ {NULL}

\* the rooms at k moves or fewer from the hall
RECURSIVE Ate(_, _)
Ate(s, k) ==
    IF k = 0 THEN {1}
    ELSE LET R == Ate(s, k - 1)
         IN R \cup UNION {Filhos(s, a) : a \in R}

\* the least number of moves from the hall to room a
Nivel(s, a) == CHOOSE k \in 0..Len(s) :
                  /\ a \in Ate(s, k)
                  /\ \A j \in 0..(k - 1) : a \notin Ate(s, j)

\* C21: navigation is one-way and bounded.  A step that changes the current
\* room goes to one of its children, one level deeper, a room not visited
\* before; at most 3 rooms are visited; the store never loses or changes a
\* node and never holds more nodes than rooms were visited.
C21_NavegacaoSoDesce ==
    [][/\ atual' # atual =>
            /\ atual' \in Filhos(salas, atual)
            /\ atual' \notin visitadas
            /\ Nivel(salas, atual') = Nivel(salas, atual) + 1
       /\ Nivel(salas, atual') >= Nivel(salas, atual)
       /\ visitadas \subseteq visitadas'
       /\ Cardinality(visitadas') <= 3
       /\ Len(nos') >= Len(nos)
       /\ \A i \in 1..Len(nos) : nos'[i].pista = nos[i].pista
       /\ Len(nos') <= Cardinality(visitadas')]_vars

C21_Witness ==
    /\ variante = "Mestre"
    /\ Finished
    /\ visitadas = {1, 3, 6}
    /\ atual = 6
    /\ Len(nos) = 3

----------------------------------------------------------------------------
\* the nodes of the store that hold the text t as inserirPista stores it
NosDe(t) == {i \in 1..Len(nos) : nos[i].pista = strncpyTerm(t, MAX_PISTA)}

\* C22: duplicate suppression holds for over-long texts too: however often
\* a text longer than 127 bytes is given to the Mestre inserirPista, the
\* store lists it once, and the enumeration with it is strictly ascending.
C22_LongoSemDuplicata ==
    (pc = "api" /\ variante = "Mestre") =>
        \A t \in Textos :
            (Len(t) > MAX_PISTA - 1 /\ NosDe(t) # {}) =>
                /\ Cardinality(NosDe(t)) = 1
                /\ EstritamenteCrescente(Enumeracao)

----------------------------------------------------------------------------
\* C23: insert-then-lookup round trip.  encontrarSuspeito(c) called right
\* after inserirNaHash(c, s) returns s, for every table, every text c, the
\* over-long one included, and every suspect s; and the insert leaves the
\* lookup result of every other text as it was.
C23_InsereDepoisEncontra ==
    [][/\ (op = "inserirNaHash" /\ op' = "encontrarSuspeito" /\ arg' = arg)
            => achado' = inseridas[Len(inseridas)].suspeito
       /\ op' = "inserirNaHash" =>
            \A c \in TextosBusca \ {arg'} :
                encontrarSuspeito(tabela', c) = encontrarSuspeito(tabela, c)]_vars

----------------------------------------------------------------------------
\* the names an accusation is tried with: the three suspects and the sentinel
NomesAcusaveis == {Jardineiro, Governanta, MadameSinclair, Desconhecido}

\* the count verificarSuspeitoFinal would compute for the name s now
ContagemDe(s) == contarPistasPorSuspeitoNaBST(tabela, nos, raizPistas, s)

\* the names whose accusation would be confirmed now
Confirmados == {s \in NomesAcusaveis : Classificar(ContagemDe(s)) = "confirmada"}

\* C24: in the Mestre program, once the exploration is over, at most one
\* suspect has a count of 2 or more; a count of 2 or more needs a visited
\* room at depth 2; and after a complete path from the hall to a leaf
\* exactly one suspect would be confirmed.
C24_UmCulpadoPorCaminho ==
    (variante = "Mestre" /\ Finished) =>
        /\ Cardinality({s \in NomesAcusaveis : ContagemDe(s) >= 2}) <= 1
        /\ (\E s \in NomesAcusaveis : ContagemDe(s) >= 2)
              => \E r \in visitadas : Nivel(salas, r) = 2
        /\ (Folha(salas, atual) /\ atual \in visitadas)
              => Cardinality(Confirmados) = 1
        /\ veredito = "confirmada" => nome \in Confirmados

C24_Witness ==
    /\ variante = "Mestre"
    /\ pc = "fim"
    /\ visitadas = {1, 2, 5}
    /\ veredito = "confirmada"
    /\ nome = Jardineiro
    /\ Confirmados = {Jardineiro}

----------------------------------------------------------------------------
\* C25: in the Mestre program the clue of the hall is collected before the
\* first command is read: from the first prompt on the store holds it, so
\* the store is not empty when the accusation starts, whatever was typed,
\* and an accusation of "Jardineiro" is never without foundation.
C25_PistaDoHallSempre ==
    /\ (variante = "Mestre" /\ pc \in {"prompt", "listar", "acusar", "fim"})
          => /\ raizPistas # NULL
             /\ nos[raizPistas].pista = salas[1].pista
             /\ nos[raizPistas].pista # <<>>
             /\ ContagemDe(Jardineiro) >= 1
    /\ (variante = "Mestre" /\ relato = "veredito" /\ nome = Jardineiro)
          => veredito \in {"fragil", "confirmada"}

C25_Witness ==
    /\ variante = "Mestre"
    /\ pc = "fim"
    /\ visitadas = {1}
    /\ relato = "veredito"
    /\ nome = Jardineiro
    /\ veredito = "fragil"

----------------------------------------------------------------------------
(* Twin runs: the loop of the Mestre program (explorarMansao) and the loop  *)
(* of the Aventureiro program (explorarSalasComPistas), each on the mansion *)
(* of its main, both fed the same lines.  A run that has read all the lines *)
(* typed so far waits.  corrida[p] is the run of program p: pc ("prompt"    *)
(* at scanf, "pausa" at the second limparBufferEntrada of an error branch,  *)
(* "fim" after the loop), atual, the rooms announced, the number of lines   *)
(* read, and the store.                                                     *)

\* bound of the number of lines typed
MaxLinhas == 3

\* the lines typed: "e", "d", "s", "x"
LinhasPar == {<<101>>, <<100>>, <<115>>, <<120>>}

Programas == {"Mestre", "Aventureiro"}

\* the mansion main builds in program p
MansaoDe(p) == IF p = "Mestre" THEN MansaoMestre ELSE MansaoAv

\* the loop body from its top to the prompt, in room a: the room is
\* announced and its clue, if it has one, inserted
Visitar(p, c, a) ==
    LET r == IF MansaoDe(p)[a].pista = <<>>
             THEN [nos |-> c.nos, raiz |-> c.raiz]
             ELSE IF p = "Mestre"
             THEN inserirPista(c.nos, c.raiz, MansaoDe(p)[a].pista)
             ELSE inserirPistaAv(c.nos, c.raiz, MansaoDe(p)[a].pista)
    IN [pc |-> "prompt", atual |-> a, rota |-> Append(c.rota, a),
        lidas |-> c.lidas, nos |-> r.nos, raiz |-> r.raiz]

\* the call of the loop with the hall, up to its first prompt
CorridaInicial(p) ==
    Visitar(p, [rota |-> <<>>, lidas |-> 0, nos |-> <<>>, raiz |-> NULL], 1)

InitPar ==
    /\ variante = "Mestre e Aventureiro"
    /\ pc = "par"
    /\ salas = <<>>
    /\ atual = NULL
    /\ opcao = Indet
    /\ eof = FALSE
    /\ visitadas = {}
    /\ relato = "nenhum"
    /\ nos = <<>>
    /\ raizPistas = NULL
    /\ tabela = inicializarHash
    /\ listagem = <<>>
    /\ nome = NomeIndet
    /\ total = NaoCalc
    /\ veredito = "nenhum"
    /\ op = "nenhuma"
    /\ arg = <<>>
    /\ inseridas = <<>>
    /\ achado = <<>>
    /\ entrada \in UNION {[1..n -> LinhasPar] : n \in 0..MaxLinhas}
    /\ corrida = [p \in Programas |-> CorridaInicial(p)]

\* explorarMansao from scanf to the next prompt, to the pause of an error
\* branch, or out of the loop
Par_explorarMansao ==
    /\ pc = "par"
    /\ corrida["Mestre"].pc = "prompt"
    /\ corrida["Mestre"].lidas < Len(entrada)
    /\ LET c == [corrida["Mestre"] EXCEPT !.lidas = @ + 1]
           s == MansaoDe("Mestre")
           o == scanfChar(entrada[c.lidas])
       IN corrida' = [corrida EXCEPT !["Mestre"] =
            IF o \in {101, 69}
            THEN IF s[c.atual].esquerda # NULL
                 THEN Visitar("Mestre", c, s[c.atual].esquerda)
                 ELSE [c EXCEPT !.pc = "pausa"]
            ELSE IF o \in {100, 68}
            THEN IF s[c.atual].direita # NULL
                 THEN Visitar("Mestre", c, s[c.atual].direita)
                 ELSE [c EXCEPT !.pc = "pausa"]
            ELSE IF o \in {115, 83}
            THEN [c EXCEPT !.pc = "fim"]
            ELSE [c EXCEPT !.pc = "pausa"]]
    /\ UNCHANGED <<variante, entrada, pc, salas, atual, opcao, eof,
                   visitadas, relato, nos, raizPistas, tabela, listagem,
                   nome, total, veredito, op, arg, inseridas, achado>>

\* the limparBufferEntrada of an error branch of explorarMansao: one more
\* line is read and dropped, then the loop goes round
Par_explorarMansao_Pausa ==
    /\ pc = "par"
    /\ corrida["Mestre"].pc = "pausa"
    /\ corrida["Mestre"].lidas < Len(entrada)
    /\ LET c == [corrida["Mestre"] EXCEPT !.lidas = @ + 1]
       IN corrida' = [corrida EXCEPT !["Mestre"] =
                        Visitar("Mestre", c, c.atual)]
    /\ UNCHANGED <<variante, entrada, pc, salas, atual, opcao, eof,
                   visitadas, relato, nos, raizPistas, tabela, listagem,
                   nome, total, veredito, op, arg, inseridas, achado>>

\* explorarSalasComPistas from scanf to the next prompt or out of the loop
Par_explorarSalasComPistas ==
    /\ pc = "par"
    /\ corrida["Aventureiro"].pc = "prompt"
    /\ corrida["Aventureiro"].lidas < Len(entrada)
    /\ LET c == [corrida["Aventureiro"] EXCEPT !.lidas = @ + 1]
           s == MansaoDe("Aventureiro")
           o == scanfChar(entrada[c.lidas])
       IN corrida' = [corrida EXCEPT !["Aventureiro"] =
            IF o \in {101, 69}
            THEN IF s[c.atual].esquerda # NULL
                 THEN Visitar("Aventureiro", c, s[c.atual].esquerda)
                 ELSE Visitar("Aventureiro", c, c.atual)
            ELSE IF o \in {100, 68}
            THEN IF s[c.atual].direita # NULL
                 THEN Visitar("Aventureiro", c, s[c.atual].direita)
                 ELSE Visitar("Aventureiro", c, c.atual)
            ELSE IF o \in {115, 83}
            THEN [c EXCEPT !.pc = "fim"]
            ELSE Visitar("Aventureiro", c, c.atual)]
    /\ UNCHANGED <<variante, entrada, pc, salas, atual, opcao, eof,
                   visitadas, relato, nos, raizPistas, tabela, listagem,
                   nome, total, veredito, op, arg, inseridas, achado>>

NextPar ==
    \/ Par_explorarMansao
    \/ Par_explorarMansao_Pausa
    \/ Par_explorarSalasComPistas

SpecPar == InitPar /\ [][NextPar]_vars

\* the run c has gone as far as the lines typed take it: it is out of the
\* loop, or at the prompt with every line read
Parada(c) == c.pc = "fim" \/ (c.pc = "prompt" /\ c.lidas = Len(entrada))

\* C26: the two loops are equivalent: on the same lines, once both runs
\* have gone as far as the lines take them, they have announced the same
\* rooms in the same order, both or neither have left the loop, they have
\* read the same number of lines, and their stores list the same clues.
C26_LacosEquivalentes ==
    (pc = "par" /\ Parada(corrida["Mestre"]) /\ Parada(corrida["Aventureiro"]))
        => /\ corrida["Mestre"].rota = corrida["Aventureiro"].rota
           /\ corrida["Mestre"].pc = corrida["Aventureiro"].pc
           /\ corrida["Mestre"].lidas = corrida["Aventureiro"].lidas
           /\ exibirPistas(corrida["Mestre"].nos, corrida["Mestre"].raiz)
                = exibirPistas(corrida["Aventureiro"].nos,
                               corrida["Aventureiro"].raiz)

----------------------------------------------------------------------------
\* the three programs kept running: a program that can take a step takes one
SpecJusta == Init /\ [][Next]_vars /\ WF_vars(Next)

\* C27: the exploration ends when the input runs out: once a read of the
\* loop has met the end of the input the loop goes on to Finished; and the
\* step of a read that fails does not move the player: it is not carried
\* out as a command.
C27_SemEntradaTermina ==
    /\ (eof ~> Finished)
    /\ [][(pc = "prompt" /\ eof') => atual' = atual]_vars

====
